---- MODULE Spec2Model ----
(***************************************************************************)
(* Verification model of cosmostrix: the frame buffer with change          *)
(* tracking (src/frame.rs) and the render loop of the driver (src/main.rs).*)
(***************************************************************************)
EXTENDS Integers, Naturals, Sequences, FiniteSets, TLC

\* ------------------------------------------------------------------ bounds
MaxW == 2
MaxH == 2
MaxCells == 4

\* ------------------------------------------------------------ cell values
\* Option<usize>, Option<Instant>: None is -1
None == -1
\* Option<&Cell>: None is the empty sequence, Some(cell) a sequence of one
NoCell == << >>
Some(cell) == <<cell>>

\* background colours handed to Frame::new / clear_with_bg
Bgs == {"None", "Black"}

\* Cell::blank_with_bg (crate::cell)
blank_with_bg(bg) == [ch |-> " ", fg |-> "None", bold |-> FALSE, bg |-> bg]

\* the cell values painted by set; cells are compared by value
Cells == {blank_with_bg(bg) : bg \in Bgs}

\* ------------------------------------------------------------------ state
\* frame    : the Frame under test / the driver's frame (main.rs:275)
\* base     : the cells as they were at the most recent clear_dirty
\* touched  : the indices some set has changed since then
\* last     : the operation that produced the current frame
\* panicked : an indexing panic has happened
VARIABLES frame, base, touched, last, panicked

fvars == <<frame, base, touched, last, panicked>>

\* ------------------------------------------------------------------ Frame
\* Frame::new
Frame_new(width, height, bg) ==
    LET len == width * height IN
    [ width     |-> width,
      height    |-> height,
      cells     |-> [i \in 0..(len - 1) |-> blank_with_bg(bg)],
      dirty_all |-> TRUE,
      dirty_map |-> [i \in 0..(len - 1) |-> FALSE],
      dirty     |-> << >> ]

\* clear_with_bg without its dirty.clear()
clear_with_bg_keeps_dirty(f, bg) ==
    [f EXCEPT !.cells = [i \in DOMAIN f.cells |-> blank_with_bg(bg)],
              !.dirty_all = TRUE]

\* Frame::clear_with_bg
clear_with_bg(f, bg) ==
    [f EXCEPT !.cells = [i \in DOMAIN f.cells |-> blank_with_bg(bg)],
              !.dirty_all = TRUE,
              !.dirty = << >>]

\* Frame::is_dirty_all
is_dirty_all(f) == f.dirty_all

\* Frame::dirty_indices
dirty_indices(f) == f.dirty

\* clear_dirty whose incremental branch empties the list but keeps the map
clear_dirty_keeps_map(f) ==
    IF f.dirty_all
    THEN [f EXCEPT !.dirty_all = FALSE,
                   !.dirty_map = [i \in DOMAIN f.dirty_map |-> FALSE],
                   !.dirty = << >>]
    ELSE [f EXCEPT !.dirty = << >>]

\* clear_dirty whose incremental branch resets the map but keeps the list
clear_dirty_keeps_list(f) ==
    IF f.dirty_all
    THEN [f EXCEPT !.dirty_all = FALSE,
                   !.dirty_map = [i \in DOMAIN f.dirty_map |-> FALSE],
                   !.dirty = << >>]
    ELSE [f EXCEPT !.dirty_map =
                       [i \in DOMAIN f.dirty_map |->
                           IF \E k \in 1..Len(f.dirty) : f.dirty[k] = i
                           THEN FALSE ELSE f.dirty_map[i]]]

\* clear_dirty whose full-redraw branch does not fill the map with false
clear_dirty_no_fill(f) ==
    IF f.dirty_all
    THEN [f EXCEPT !.dirty_all = FALSE,
                   !.dirty = << >>]
    ELSE [f EXCEPT !.dirty_map =
                       [i \in DOMAIN f.dirty_map |->
                           IF \E k \in 1..Len(f.dirty) : f.dirty[k] = i
                           THEN FALSE ELSE f.dirty_map[i]],
                   !.dirty = << >>]

\* Frame::clear_dirty
clear_dirty(f) ==
    IF f.dirty_all
    THEN [f EXCEPT !.dirty_all = FALSE,
                   !.dirty_map = [i \in DOMAIN f.dirty_map |-> FALSE],
                   !.dirty = << >>]
    ELSE [f EXCEPT !.dirty_map =
                       [i \in DOMAIN f.dirty_map |->
                           IF \E k \in 1..Len(f.dirty) : f.dirty[k] = i
                           THEN FALSE ELSE f.dirty_map[i]],
                   !.dirty = << >>]

\* index laid out column by column
index_column_major(f, x, y) ==
    IF x >= f.width \/ y >= f.height
    THEN None
    ELSE x * f.height + y

\* index with > where the code has >=
index_off_by_one(f, x, y) ==
    IF x > f.width \/ y > f.height
    THEN None
    ELSE y * f.width + x

\* Frame::index
index(f, x, y) ==
    IF x >= f.width \/ y >= f.height
    THEN None
    ELSE y * f.width + x

\* Frame::get; the slice access cells[i] panics when i is not a cell
get_panics(f, x, y) ==
    LET i == index(f, x, y) IN i # None /\ i \notin DOMAIN f.cells

get(f, x, y) ==
    LET i == index(f, x, y) IN
    IF i = None \/ i \notin DOMAIN f.cells THEN NoCell ELSE Some(f.cells[i])

\* Frame::set; cells[i] = cell panics when i is not a cell
set_panics(f, x, y, cell) ==
    LET i == index(f, x, y) IN i # None /\ i \notin DOMAIN f.cells

\* set that pushes the index without consulting dirty_map
set_push_always(f, x, y, cell) ==
    LET i == index(f, x, y) IN
    IF i = None THEN f
    ELSE IF i \notin DOMAIN f.cells THEN f
    ELSE IF f.cells[i] = cell THEN f
    ELSE LET g == [f EXCEPT !.cells[i] = cell] IN
         IF ~f.dirty_all /\ i \in DOMAIN f.dirty_map
         THEN [g EXCEPT !.dirty_map[i] = TRUE, !.dirty = Append(f.dirty, i)]
         ELSE g

\* set without the early return on a value-equal cell
set_no_equal_return(f, x, y, cell) ==
    LET i == index(f, x, y) IN
    IF i = None THEN f
    ELSE IF i \notin DOMAIN f.cells THEN f
    ELSE LET g == [f EXCEPT !.cells[i] = cell] IN
         IF ~f.dirty_all /\ i \in DOMAIN f.dirty_map /\ f.dirty_map[i] = FALSE
         THEN [g EXCEPT !.dirty_map[i] = TRUE, !.dirty = Append(f.dirty, i)]
         ELSE g

\* set that records the index although a full redraw is pending
set_ignores_dirty_all(f, x, y, cell) ==
    LET i == index(f, x, y) IN
    IF i = None THEN f
    ELSE IF i \notin DOMAIN f.cells THEN f
    ELSE IF f.cells[i] = cell THEN f
    ELSE LET g == [f EXCEPT !.cells[i] = cell] IN
         IF i \in DOMAIN f.dirty_map /\ f.dirty_map[i] = FALSE
         THEN [g EXCEPT !.dirty_map[i] = TRUE, !.dirty = Append(f.dirty, i)]
         ELSE g

set(f, x, y, cell) ==
    LET i == index(f, x, y) IN
    IF i = None THEN f
    ELSE IF i \notin DOMAIN f.cells THEN f
    ELSE IF f.cells[i] = cell THEN f
    ELSE LET g == [f EXCEPT !.cells[i] = cell] IN
         IF ~f.dirty_all /\ i \in DOMAIN f.dirty_map /\ f.dirty_map[i] = FALSE
         THEN [g EXCEPT !.dirty_map[i] = TRUE, !.dirty = Append(f.dirty, i)]
         ELSE g

\* ------------------------------------------------- operations on a Frame
\* sizes a frame is created with (terminal size, Resize events)
Dims == {d \in (0..MaxW) \X (0..MaxH) : d[1] * d[2] <= MaxCells}

\* coordinates handed to get and set: every cell and one step outside
Xs(f) == 0..f.width
Ys(f) == 0..f.height

\* how a set(x, y, cell) meets the frame it is applied to
SetTag(f, x, y, cell) ==
    IF x >= f.width \/ y >= f.height THEN "oob"
    ELSE IF get(f, x, y) = Some(cell) THEN "same"
    ELSE "changed"

\* the indices whose cell differs between two grids of one size
Differs(c1, c2) == {i \in DOMAIN c1 : c1[i] # c2[i]}

FrameInit ==
    /\ \E d \in Dims, bg \in Bgs :
          /\ frame = Frame_new(d[1], d[2], bg)
          /\ last = [op |-> "new", tag |-> bg]
    /\ base = frame.cells
    /\ touched = {}
    /\ panicked = FALSE

New ==
    \E d \in Dims, bg \in Bgs :
        /\ frame' = Frame_new(d[1], d[2], bg)
        /\ base' = frame'.cells
        /\ touched' = {}
        /\ last' = [op |-> "new", tag |-> bg]
        /\ UNCHANGED panicked

ClearWithBg ==
    \E bg \in Bgs :
        /\ frame' = clear_with_bg(frame, bg)
        /\ base' = frame'.cells
        /\ touched' = {}
        /\ last' = [op |-> "clear_with_bg", tag |-> bg]
        /\ UNCHANGED panicked

ClearDirty ==
    /\ frame' = clear_dirty(frame)
    /\ base' = frame.cells
    /\ touched' = {}
    /\ last' = [op |-> "clear_dirty", tag |-> "-"]
    /\ UNCHANGED panicked

Get ==
    \E x \in Xs(frame), y \in Ys(frame) :
        /\ last' = [op |-> "get",
                    tag |-> IF get(frame, x, y) = NoCell THEN "none" ELSE "some"]
        /\ panicked' = (panicked \/ get_panics(frame, x, y))
        /\ UNCHANGED <<frame, base, touched>>

Set ==
    \E x \in Xs(frame), y \in Ys(frame), cell \in Cells :
        /\ frame' = set(frame, x, y, cell)
        /\ touched' = IF frame.dirty_all THEN {}
                      ELSE touched \cup Differs(frame'.cells, frame.cells)
        /\ last' = [op |-> "set", tag |-> SetTag(frame, x, y, cell)]
        /\ panicked' = (panicked \/ set_panics(frame, x, y, cell))
        /\ UNCHANGED base

FrameNext == New \/ ClearWithBg \/ ClearDirty \/ Get \/ Set

\* ------------------------------------------------------------- the driver
\* Time is counted in tenths of a second, chars-per-second in thousandths.
MaxClock == 6
MaxEvents == 2

\* f32 / f64 values: finite numbers and the non-finite ones
Fin(n) == [kind |-> "finite", val |-> n]
NaN == [kind |-> "nan", val |-> 0]
PosInf == [kind |-> "posinf", val |-> 0]
NegInf == [kind |-> "neginf", val |-> 0]
\* Option<f64>::None
NoDuration == [kind |-> "none", val |-> 0]

\* f32::is_finite
is_finite(v) == v.kind = "finite"

\* the order of floats; every comparison with NaN is false
f_lt(a, b) ==
    IF a.kind = "nan" \/ b.kind = "nan" THEN FALSE
    ELSE IF a.kind = "neginf" THEN b.kind # "neginf"
    ELSE IF a.kind = "posinf" THEN FALSE
    ELSE IF b.kind = "neginf" THEN FALSE
    ELSE IF b.kind = "posinf" THEN TRUE
    ELSE a.val < b.val

\* f32::clamp / f64::clamp: NaN stays NaN
f_clamp(v, min, max) ==
    IF v.kind = "nan" THEN v
    ELSE IF f_lt(v, min) THEN min
    ELSE IF f_lt(max, v) THEN max
    ELSE v

\* clamp_f64 (main.rs:62)
clamp_f64(v, min, max, fallback) ==
    IF ~is_finite(v) THEN fallback ELSE f_clamp(v, min, max)

\* clamp_f32 without the is_finite test
clamp_f32_unchecked(v, min, max, fallback) == f_clamp(v, min, max)

\* clamp_f32 (main.rs:69)
clamp_f32(v, min, max, fallback) ==
    IF ~is_finite(v) THEN fallback ELSE f_clamp(v, min, max)

\* f32 arithmetic on finite values; NaN and the infinities absorb it
f_add(a, n) == IF is_finite(a) THEN Fin(a.val + n) ELSE a
f_mul(a, k) == IF is_finite(a) THEN Fin(a.val * k) ELSE a
f_div(a, k) == IF is_finite(a) THEN Fin(a.val \div k) ELSE a
\* a <= b
f_le(a, b) == a.kind # "nan" /\ b.kind # "nan" /\ ~f_lt(b, a)
\* f32::min, f32::max: when one side is NaN the other is returned
f_min(a, b) ==
    IF a.kind = "nan" THEN b ELSE IF b.kind = "nan" THEN a
    ELSE IF f_lt(b, a) THEN b ELSE a
f_max(a, b) ==
    IF a.kind = "nan" THEN b ELSE IF b.kind = "nan" THEN a
    ELSE IF f_lt(a, b) THEN b ELSE a
\* clamp that returns its argument
u_clamp_none(v, min, max) == v
\* Ord::clamp on u16 / u8
u_clamp(v, min, max) == IF v < min THEN min ELSE IF v > max THEN max ELSE v

\* ----------------------------------------------------------------- strings
\* A string is the sequence of its characters.
RECURSIVE trim_start(_)
trim_start(s) ==
    IF s # << >> /\ Head(s) = " " THEN trim_start(Tail(s)) ELSE s
RECURSIVE trim_end(_)
trim_end(s) ==
    IF s # << >> /\ s[Len(s)] = " " THEN trim_end(SubSeq(s, 1, Len(s) - 1)) ELSE s
\* str::trim
trim(s) == trim_end(trim_start(s))

Lower ==
    ("A" :> "a") @@ ("B" :> "b") @@ ("C" :> "c") @@ ("D" :> "d") @@ ("E" :> "e") @@ ("F" :> "f") @@ 
    ("G" :> "g") @@ ("H" :> "h") @@ ("I" :> "i") @@ ("J" :> "j") @@ ("K" :> "k") @@ ("L" :> "l") @@ 
    ("M" :> "m") @@ ("N" :> "n") @@ ("O" :> "o") @@ ("P" :> "p") @@ ("Q" :> "q") @@ ("R" :> "r") @@ 
    ("S" :> "s") @@ ("T" :> "t") @@ ("U" :> "u") @@ ("V" :> "v") @@ ("W" :> "w") @@ ("X" :> "x") @@ 
    ("Y" :> "y") @@ ("Z" :> "z")
\* str::to_ascii_lowercase
to_ascii_lowercase(s) ==
    [k \in 1..Len(s) |-> IF s[k] \in DOMAIN Lower THEN Lower[s[k]] ELSE s[k]]

RECURSIVE find(_, _, _)
find(s, c, k) ==
    IF k > Len(s) THEN 0 ELSE IF s[k] = c THEN k ELSE find(s, c, k + 1)
\* str::split_once: the parts around the first c, or nothing
split_once(s, c) ==
    LET k == find(s, c, 1) IN
    IF k = 0 THEN << >> ELSE <<SubSeq(s, 1, k - 1), SubSeq(s, k + 1, Len(s))>>

DigitVal ==
    ("0" :> 0) @@ ("1" :> 1) @@ ("2" :> 2) @@ ("3" :> 3) @@ ("4" :> 4) @@
    ("5" :> 5) @@ ("6" :> 6) @@ ("7" :> 7) @@ ("8" :> 8) @@ ("9" :> 9)
U16Max == 65535
RECURSIVE u16_digits(_, _)
u16_digits(s, acc) ==
    IF s = << >> THEN acc
    ELSE IF Head(s) \notin DOMAIN DigitVal THEN None
    ELSE LET v == acc * 10 + DigitVal[Head(s)] IN
         IF v > U16Max THEN None ELSE u16_digits(Tail(s), v)
\* str::parse::<u16>: an optional +, then digits, no overflow; None on error
parse_u16(s) ==
    LET t == IF s # << >> /\ Head(s) = "+" THEN Tail(s) ELSE s IN
    IF t = << >> THEN None ELSE u16_digits(t, 0)

\* Result<U16Range, String>
RangeErr == [ok |-> FALSE, low |-> 0, high |-> 0]
RangeOk(low, high) == [ok |-> TRUE, low |-> low, high |-> high]

\* from_str that accepts a range whose low exceeds its high
U16Range_from_str_unordered(s) ==
    LET ab == split_once(s, ",") IN
    IF ab = << >> THEN RangeErr
    ELSE LET low == parse_u16(trim(ab[1]))
             high == parse_u16(trim(ab[2])) IN
         IF low = None THEN RangeErr
         ELSE IF high = None THEN RangeErr
         ELSE IF low = 0 \/ high = 0 THEN RangeErr
         ELSE RangeOk(low, high)

\* U16Range::from_str (config.rs:14)
U16Range_from_str(s) ==
    LET ab == split_once(s, ",") IN
    IF ab = << >> THEN RangeErr
    ELSE LET low == parse_u16(trim(ab[1]))
             high == parse_u16(trim(ab[2])) IN
         IF low = None THEN RangeErr
         ELSE IF high = None THEN RangeErr
         ELSE IF low = 0 \/ high = 0 \/ low > high THEN RangeErr
         ELSE RangeOk(low, high)

\* ------------------------------------------------------------ color themes
InvalidColor == "Err"

\* parse_color_scheme (main.rs:110)
parse_color_scheme(s) ==
    LET n == to_ascii_lowercase(trim(s)) IN
        CASE n = <<"g", "r", "e", "e", "n">> -> "Green"
          [] n = <<"g", "r", "e", "e", "n", "2">> -> "Green2"
          [] n = <<"g", "r", "e", "e", "n", "3">> -> "Green3"
          [] n = <<"y", "e", "l", "l", "o", "w">> -> "Yellow"
          [] n = <<"o", "r", "a", "n", "g", "e">> -> "Orange"
          [] n = <<"r", "e", "d">> -> "Red"
          [] n = <<"b", "l", "u", "e">> -> "Blue"
          [] n = <<"c", "y", "a", "n">> -> "Cyan"
          [] n = <<"g", "o", "l", "d">> -> "Gold"
          [] n = <<"r", "a", "i", "n", "b", "o", "w">> -> "Rainbow"
          [] n = <<"p", "u", "r", "p", "l", "e">> -> "Purple"
          [] n \in {<<"n", "e", "o", "n">>,
                    <<"s", "y", "n", "t", "h", "w", "a", "v", "e">>} -> "Neon"
          [] n \in {<<"f", "i", "r", "e">>,
                    <<"i", "n", "f", "e", "r", "n", "o">>} -> "Fire"
          [] n \in {<<"o", "c", "e", "a", "n">>,
                    <<"d", "e", "e", "p", "-", "s", "e", "a">>,
                    <<"d", "e", "e", "p", "_", "s", "e", "a">>,
                    <<"d", "e", "e", "p", "s", "e", "a">>} -> "Ocean"
          [] n \in {<<"f", "o", "r", "e", "s", "t">>,
                    <<"j", "u", "n", "g", "l", "e">>} -> "Forest"
          [] n = <<"v", "a", "p", "o", "r", "w", "a", "v", "e">> -> "Vaporwave"
          [] n \in {<<"g", "r", "a", "y">>,
                    <<"g", "r", "e", "y">>} -> "Gray"
          [] n = <<"s", "n", "o", "w">> -> "Snow"
          [] n = <<"a", "u", "r", "o", "r", "a">> -> "Aurora"
          [] n \in {<<"f", "a", "n", "c", "y", "-", "d", "i", "a", "m", "o", "n", "d">>,
                    <<"f", "a", "n", "c", "y", "_", "d", "i", "a", "m", "o", "n", "d">>,
                    <<"f", "a", "n", "c", "y", "d", "i", "a", "m", "o", "n", "d">>} -> "FancyDiamond"
          [] n = <<"c", "o", "s", "m", "o", "s">> -> "Cosmos"
          [] n = <<"n", "e", "b", "u", "l", "a">> -> "Nebula"
          [] OTHER -> InvalidColor

\* the theme names print_list_colors prints (config.rs:297)
print_list_colors ==
    {<<"g", "r", "e", "e", "n">>,
     <<"g", "r", "e", "e", "n", "2">>,
     <<"g", "r", "e", "e", "n", "3">>,
     <<"y", "e", "l", "l", "o", "w">>,
     <<"o", "r", "a", "n", "g", "e">>,
     <<"r", "e", "d">>,
     <<"b", "l", "u", "e">>,
     <<"c", "y", "a", "n">>,
     <<"g", "o", "l", "d">>,
     <<"r", "a", "i", "n", "b", "o", "w">>,
     <<"p", "u", "r", "p", "l", "e">>,
     <<"p", "i", "n", "k">>,
     <<"p", "i", "n", "k", "2">>,
     <<"v", "a", "p", "o", "r", "w", "a", "v", "e">>,
     <<"g", "r", "a", "y">>,
     <<"g", "r", "e", "y">>,
     <<"u", "s", "e", "r">>}

ColorModes == {"Mono", "Color16", "Color256", "TrueColor"}
ColorSchemes ==
    {"Green", "Green2", "Green3", "Gold", "Yellow", "Orange", 
     "Red", "Blue", "Cyan", "Purple", "Neon", "Fire", 
     "Ocean", "Forest", "Vaporwave", "Gray", "Rainbow", "Snow", 
     "Aurora", "FancyDiamond", "Cosmos", "Nebula"}

\* Option<Color>::None and Color::AnsiValue
NoColor == "None"
AnsiValue(v) == "AnsiValue(" \o ToString(v) \o ")"
from_ansi_list(list) == [k \in 1..Len(list) |-> AnsiValue(list[k])]

\* the 22 color lists of build_palette (palette.rs:32-174)
palette_colors(scheme, mode) ==
        CASE scheme = "Green" ->
               (IF mode = "Mono" THEN <<"White">>
               ELSE IF mode = "Color16"
               THEN <<"DarkGreen", "Green">>
               ELSE from_ansi_list(<<234, 22, 28, 35, 78, 84, 159>>))
          [] scheme = "Green2" ->
               (IF mode = "Mono" THEN <<"White">>
               ELSE IF mode = "Color16"
               THEN <<"DarkGrey", "DarkGreen", "Green", "White">>
               ELSE from_ansi_list(<<28, 34, 76, 84, 120, 157, 231>>))
          [] scheme = "Green3" ->
               (IF mode = "Mono" THEN <<"White">>
               ELSE IF mode = "Color16"
               THEN <<"DarkGreen", "White">>
               ELSE from_ansi_list(<<22, 28, 34, 70, 76, 82, 157>>))
          [] scheme = "Gold" ->
               (IF mode = "Mono" THEN <<"White">>
               ELSE IF mode = "Color16"
               THEN <<"DarkGrey", "DarkYellow", "Yellow", "White">>
               ELSE from_ansi_list(<<58, 94, 172, 178, 228, 230, 231>>))
          [] scheme = "Yellow" ->
               (IF mode = "Mono" THEN <<"White">>
               ELSE IF mode = "Color16"
               THEN <<"DarkGrey", "Yellow", "White">>
               ELSE from_ansi_list(<<100, 142, 184, 226, 227, 229, 230>>))
          [] scheme = "Orange" ->
               (IF mode = "Mono" THEN <<"White">>
               ELSE IF mode = "Color16"
               THEN <<"Red", "Grey">>
               ELSE from_ansi_list(<<52, 94, 130, 166, 202, 208, 231>>))
          [] scheme = "Red" ->
               (IF mode = "Mono" THEN <<"White">>
               ELSE IF mode = "Color16"
               THEN <<"DarkRed", "Red", "White">>
               ELSE from_ansi_list(<<234, 52, 88, 124, 160, 196, 217>>))
          [] scheme = "Blue" ->
               (IF mode = "Mono" THEN <<"White">>
               ELSE IF mode = "Color16"
               THEN <<"DarkBlue", "Blue", "White">>
               ELSE from_ansi_list(<<234, 17, 18, 19, 20, 21, 75, 159>>))
          [] scheme = "Cyan" ->
               (IF mode = "Mono" THEN <<"White">>
               ELSE IF mode = "Color16"
               THEN <<"DarkCyan", "Cyan", "White">>
               ELSE from_ansi_list(<<24, 25, 31, 32, 38, 45, 159>>))
          [] scheme = "Purple" ->
               (IF mode = "Mono" THEN <<"White">>
               ELSE IF mode = "Color16"
               THEN <<"Magenta", "Grey">>
               ELSE from_ansi_list(<<60, 61, 62, 63, 69, 111, 225>>))
          [] scheme = "Neon" ->
               (IF mode = "Mono" THEN <<"White">>
               ELSE IF mode = "Color16"
               THEN <<"Blue", "Magenta", "Cyan", "White">>
               ELSE from_ansi_list(<<17, 18, 19, 54, 93, 129, 201, 51, 231>>))
          [] scheme = "Fire" ->
               (IF mode = "Mono" THEN <<"White">>
               ELSE IF mode = "Color16"
               THEN <<"DarkRed", "Red", "DarkYellow", "Yellow", "White">>
               ELSE from_ansi_list(<<52, 88, 124, 160, 196, 202, 208, 214, 226, 231>>))
          [] scheme = "Ocean" ->
               (IF mode = "Mono" THEN <<"White">>
               ELSE IF mode = "Color16"
               THEN <<"DarkBlue", "Blue", "DarkCyan", "Cyan", "White">>
               ELSE from_ansi_list(<<17, 18, 19, 24, 30, 37, 44, 51, 87, 159, 231>>))
          [] scheme = "Forest" ->
               (IF mode = "Mono" THEN <<"White">>
               ELSE IF mode = "Color16"
               THEN <<"DarkGreen", "Green", "Yellow", "White">>
               ELSE from_ansi_list(<<22, 28, 34, 40, 46, 82, 118, 154, 190, 229, 231>>))
          [] scheme = "Vaporwave" ->
               (IF mode = "Mono" THEN <<"White">>
               ELSE IF mode = "Color16"
               THEN <<"Magenta", "Magenta", "Yellow", "Cyan", "White">>
               ELSE from_ansi_list(<<53, 54, 55, 134, 177, 219, 214, 220, 227, 229, 87, 123, 159, 195, 231>>))
          [] scheme = "Gray" ->
               (IF mode = "Mono" THEN <<"White">>
               ELSE IF mode = "Color16"
               THEN <<"DarkGrey", "Grey", "White">>
               ELSE from_ansi_list(<<234, 237, 240, 243, 246, 249, 251, 252, 231>>))
          [] scheme = "Rainbow" ->
               (IF mode = "Mono" THEN <<"White">>
               ELSE IF mode = "Color16"
               THEN <<"Red", "Blue", "Yellow", "Green", "Cyan", "Magenta">>
               ELSE from_ansi_list(<<196, 208, 226, 46, 21, 93, 201>>))
          [] scheme = "Snow" ->
               (IF mode = "Mono" THEN <<"White">>
               ELSE IF mode = "Color16"
               THEN <<"DarkGrey", "Grey", "White", "Cyan">>
               ELSE from_ansi_list(<<234, 240, 250, 252, 231, 117, 159>>))
          [] scheme = "Aurora" ->
               (IF mode = "Mono" THEN <<"White">>
               ELSE IF mode = "Color16"
               THEN <<"DarkGreen", "Green", "Cyan", "Magenta">>
               ELSE from_ansi_list(<<22, 28, 34, 40, 45, 51, 93, 129, 159>>))
          [] scheme = "FancyDiamond" ->
               (IF mode = "Mono" THEN <<"White">>
               ELSE IF mode = "Color16"
               THEN <<"Cyan", "White", "Magenta">>
               ELSE from_ansi_list(<<45, 51, 87, 123, 159, 195, 231, 225>>))
          [] scheme = "Cosmos" ->
               (IF mode = "Mono" THEN <<"White">>
               ELSE IF mode = "Color16"
               THEN <<"DarkBlue", "Blue", "Magenta", "White">>
               ELSE from_ansi_list(<<17, 18, 19, 54, 55, 56, 57, 93, 129, 189, 225>>))
          [] scheme = "Nebula" ->
               (IF mode = "Mono" THEN <<"White">>
               ELSE IF mode = "Color16"
               THEN <<"Magenta", "Red", "Blue", "White">>
               ELSE from_ansi_list(<<53, 54, 90, 126, 162, 198, 201, 207, 213, 219, 225>>))

\* build_palette whose background ignores the default-background flag
build_palette_always_bg(scheme, mode, default_background) ==
    LET bg == IF mode = "Color16" THEN "Black"
              ELSE IF mode = "TrueColor" THEN "Rgb(0,0,0)"
              ELSE AnsiValue(16)
    IN [colors |-> palette_colors(scheme, mode), bg |-> bg]

\* build_palette (palette.rs:17)
build_palette(scheme, mode, default_background) ==
    LET bg0 == IF default_background THEN NoColor
               ELSE IF mode = "Color16" THEN "Black"
               ELSE IF mode = "TrueColor" THEN "Rgb(0,0,0)"
               ELSE AnsiValue(16)
        colors == palette_colors(scheme, mode)
        bg == IF default_background THEN NoColor ELSE bg0
    IN [colors |-> colors, bg |-> bg]

\* ------------------------------------------------------------ command line
\* the parsed command line the runs start from; one group of options is
\* varied at a time.  The frame rate is kept low so that a period is a whole
\* number of clock units.
BaseArgs ==
    [ speed |-> Fin(8000), fps |-> Fin(10), duration |-> NoDuration,
      screensaver |-> FALSE, noglitch |-> FALSE,
      glitch_pct |-> Fin(10000),
      glitch_ms |-> RangeOk(300, 400), linger_ms |-> RangeOk(1, 3000),
      shortpct |-> Fin(50000), rippct |-> Fin(33333),
      max_droplets_per_column |-> 3, density |-> Fin(1000),
      defaultbg |-> FALSE,
      color |-> <<"g", "r", "e", "e", "n">>, colormode |-> None ]

SpeedInputs == {NaN, PosInf, Fin(0), Fin(8000), Fin(2000000)}
FpsInputs == {Fin(5), Fin(10)}
DurationInputs == {NoDuration, Fin(0), Fin(2), Fin(3)}
ArgsInputs ==
    {[BaseArgs EXCEPT !.speed = s, !.fps = f, !.duration = d] :
        <<s, f, d>> \in {t \in SpeedInputs \X FpsInputs \X DurationInputs :
            t[1] = Fin(8000) \/ (t[2] = Fin(10) /\ t[3] = NoDuration)}}

\* values of the options the live keys adjust: at and beyond both ends of
\* their ranges, not finite, and in the middle
KeyArgsInputs ==
    { [BaseArgs EXCEPT !.speed = Fin(0), !.density = Fin(0),
                       !.glitch_pct = Fin(-5000),
                       !.max_droplets_per_column = 0],
      [BaseArgs EXCEPT !.speed = Fin(2000000), !.density = Fin(9000),
                       !.glitch_pct = Fin(250000),
                       !.max_droplets_per_column = 255],
      [BaseArgs EXCEPT !.speed = NaN, !.density = PosInf,
                       !.glitch_pct = NaN, !.noglitch = TRUE,
                       !.max_droplets_per_column = 2],
      [BaseArgs EXCEPT !.speed = Fin(500), !.density = Fin(130),
                       !.glitch_pct = Fin(97000)] }

\* with and without --screensaver
StopArgsInputs == {[BaseArgs EXCEPT !.screensaver = b] : b \in BOOLEAN}

\* the text of a --glitchms / --lingerms value
NumberTexts ==
    { <<"0">>, <<"1">>, <<"7">>, <<" ", "7", " ">>, <<"+", "9">>,
      <<"3", "0", "0">>, <<"5", "0", "0", "0">>, <<"5", "0", "0", "1">>,
      <<"6", "0", "0", "0", "0">>, <<"6", "0", "0", "0", "1">>,
      <<"6", "5", "5", "3", "5">>, <<"6", "5", "5", "3", "6">>,
      <<"x">>, <<"-", "1">>, << >> }
RangeTexts ==
    {a \o <<",">> \o b : a \in NumberTexts, b \in NumberTexts}
        \cup NumberTexts \cup {<<"1", ",", "2", ",", "3">>}

\* the text of a --color value: the listed themes, the other accepted names,
\* and texts that need trimming or lower-casing
ColorTexts ==
    print_list_colors \cup
    { <<"n", "e", "o", "n">>, <<"f", "i", "r", "e">>, <<"o", "c", "e", "a", "n">>,
      <<"f", "o", "r", "e", "s", "t">>, <<"s", "n", "o", "w">>,
      <<"a", "u", "r", "o", "r", "a">>, <<"c", "o", "s", "m", "o", "s">>,
      <<"n", "e", "b", "u", "l", "a">>,
      <<"f", "a", "n", "c", "y", "d", "i", "a", "m", "o", "n", "d">>,
      <<" ", "R", "e", "d", " ">>, <<"B", "L", "U", "E">>, <<"m", "a", "u", "v", "e">>,
      << >> }

\* --colormode values, and what COLORTERM and TERM say
ColorModeInputs == {None, 0, 16, 32, 256, 8}
EnvInputs == [truecolor : BOOLEAN, term256 : BOOLEAN]

BaseCli ==
    [ glitchms |-> <<"3", "0", "0", ",", "4", "0", "0">>,
      lingerms |-> <<"1", ",", "3", "0", "0", "0">>,
      color |-> <<"g", "r", "e", "e", "n">>,
      colormode |-> None, defaultbg |-> FALSE,
      env |-> [truecolor |-> FALSE, term256 |-> FALSE] ]

CliInputs ==
    {[BaseCli EXCEPT !.glitchms = g] : g \in RangeTexts}
    \cup {[BaseCli EXCEPT !.lingerms = l] : l \in RangeTexts}
    \cup {[BaseCli EXCEPT !.color = c, !.colormode = m, !.defaultbg = d] :
             c \in ColorTexts, m \in ColorModeInputs, d \in BOOLEAN}
    \cup {[BaseCli EXCEPT !.env = e, !.defaultbg = d] :
             e \in EnvInputs, d \in BOOLEAN}

\* detect_color_mode (main.rs:81); "Exit" is process::exit(1)
detect_color_mode(a, env) ==
    IF a.colormode # None
    THEN IF a.colormode = 0 THEN "Mono"
         ELSE IF a.colormode = 16 THEN "Color16"
         ELSE IF a.colormode = 32 THEN "TrueColor"
         ELSE IF a.colormode = 256 THEN "Color256"
         ELSE "Exit"
    ELSE IF env.truecolor THEN "TrueColor"
    ELSE IF env.term256 THEN "Color256"
    ELSE "Color16"

\* terminal size at startup and the sizes carried by Resize events
TermSizes == {<<2, 2>>}
ResizeSizes == {<<1, 1>>, <<0, 2>>}

\* crossterm events: Event::Resize, and Event::Key with its kind
Resize(w, h) == [type |-> "Resize", w |-> w, h |-> h, code |-> "-", kind |-> "-"]
KeyPress(code) == [type |-> "Key", w |-> 0, h |-> 0, code |-> code, kind |-> "Press"]
KeyRelease(code) == [type |-> "Key", w |-> 0, h |-> 0, code |-> code, kind |-> "Release"]
EventInputs ==
    {Resize(d[1], d[2]) : d \in ResizeSizes} \cup {KeyPress("q"), KeyPress(" ")}
\* the keys that adjust speed, glitch chance and density
KeyEventInputs ==
    {KeyPress(k) : k \in {"Up", "Down", "Left", "Right", "-", "+"}}
\* the keys that end the run, next to events that do not
StopEventInputs ==
    { KeyPress("q"), KeyPress("Esc"), KeyRelease("q"), KeyPress("Up"),
      Resize(1, 1) }

\* the background of cloud.palette (build_palette, Color16, no --defaultbg)
PaletteBg == "Black"

\* Cloud::new and the setters of Cloud (crate::cloud)
Cloud_new(color_mode, default_background, color_scheme) ==
    [ raining |-> TRUE, chars_per_sec |-> Fin(8000), width |-> 0, height |-> 0,
      glitchy |-> TRUE, glitch_pct |-> Fin(100),
      glitch_low |-> 300, glitch_high |-> 400,
      linger_low |-> 1, linger_high |-> 3000,
      short_pct |-> Fin(500), die_early_pct |-> Fin(333),
      max_droplets_per_column |-> 3, droplet_density |-> Fin(1000),
      palette |-> build_palette(color_scheme, color_mode, default_background) ]
set_chars_per_sec(c, v) == [c EXCEPT !.chars_per_sec = v]
set_glitch_pct(c, v) == [c EXCEPT !.glitch_pct = v]
set_glitch_times(c, low, high) == [c EXCEPT !.glitch_low = low, !.glitch_high = high]
set_linger_times(c, low, high) == [c EXCEPT !.linger_low = low, !.linger_high = high]
set_max_droplets_per_column(c, v) == [c EXCEPT !.max_droplets_per_column = v]
set_droplet_density(c, v) == [c EXCEPT !.droplet_density = v]
reset(c, w, h) == [c EXCEPT !.width = w, !.height = h]

\* pc           : the place of main in its run
\* cli          : the command line as typed, and the environment
\* args         : the parsed command line
\* color_mode, color_scheme : locals of main (main.rs:185, 198)
\* cloud        : the rain engine's fields the driver reads and writes
\* clock        : Instant::now()
\* next_frame, end_time, target_period, pending_resize : locals of main
\* deadline     : the instant the timeout of the blocking poll_event expires
\* events       : events the terminal holds, not yet read
\* arrived      : the number of events the terminal has received
\* burst        : ticks without a resize started at the current clock value
\* size_read    : the terminal size at startup or of the last Resize read
VARIABLES pc, args, cloud, clock, next_frame, end_time, target_period,
          pending_resize, deadline, events, arrived, burst,
          cli, color_mode, color_scheme, size_read

\* what only the steps before the render loop write
avars == <<cli, color_mode, color_scheme>>

dvars == <<pc, args, cloud, clock, next_frame, end_time, target_period,
           pending_resize, deadline, events, arrived, burst, avars, size_read>>

vars == <<fvars, dvars>>

\* main.rs:278-284
EndTime(duration, start_time) ==
    IF duration.kind = "none" THEN None
    ELSE IF ~is_finite(duration) \/ duration.val <= 0 THEN None
    ELSE start_time + f_clamp(duration, Fin(1), Fin(864000)).val

\* main.rs:286-287
TargetPeriod(fps) == 10 \div clamp_f64(fps, Fin(1), Fin(240), Fin(60)).val

\* the locals of main before main has written them
LocalsIdle ==
    /\ cloud = Cloud_new("Color16", FALSE, "Green")
    /\ color_mode = "Color16"
    /\ color_scheme = "Green"
    /\ clock = 0
    /\ next_frame = 0
    /\ end_time = None
    /\ target_period = 0
    /\ pending_resize = << >>
    /\ deadline = 0
    /\ events = << >>
    /\ arrived = 0
    /\ burst = 0
    /\ size_read = << >>

DriverIdle ==
    /\ pc = "start"
    /\ args \in ArgsInputs
    /\ cli = BaseCli
    /\ LocalsIdle

\* main.rs:154-155, clap parses the command line; an error exits
ParseArgs ==
    /\ pc = "cli"
    /\ LET g == U16Range_from_str(cli.glitchms)
           l == U16Range_from_str(cli.lingerms) IN
       IF ~g.ok \/ ~l.ok
       THEN pc' = "exit_usage" /\ UNCHANGED args
       ELSE /\ args' = [args EXCEPT !.glitch_ms = g, !.linger_ms = l,
                                    !.color = cli.color,
                                    !.colormode = cli.colormode,
                                    !.defaultbg = cli.defaultbg]
            /\ pc' = "prepare"
    /\ UNCHANGED <<cloud, clock, next_frame, end_time, target_period,
                   pending_resize, deadline, events, arrived, burst,
                   avars, size_read>>
    /\ UNCHANGED fvars

\* main.rs:184-204
Prepare ==
    /\ pc = "prepare"
    /\ LET m == detect_color_mode(args, cli.env)
           s == parse_color_scheme(args.color) IN
       IF m = "Exit"
       THEN pc' = "exit_colormode" /\ UNCHANGED <<color_mode, color_scheme>>
       ELSE IF s = InvalidColor
       THEN pc' = "exit_color" /\ color_mode' = m /\ UNCHANGED color_scheme
       ELSE pc' = "start" /\ color_mode' = m /\ color_scheme' = s
    /\ UNCHANGED <<args, cloud, clock, next_frame, end_time, target_period,
                   pending_resize, deadline, events, arrived, burst,
                   cli, size_read>>
    /\ UNCHANGED fvars

\* main.rs:209-235, the engine as configured from the command line
Configured ==
    LET c0 == Cloud_new(color_mode, args.defaultbg, color_scheme)
        c1 == [c0 EXCEPT !.glitchy = ~args.noglitch]
        c2 == set_glitch_pct(c1,
                  f_div(clamp_f32(args.glitch_pct, Fin(0), Fin(100000), Fin(10000)), 100))
        c3 == set_glitch_times(c2, u_clamp(args.glitch_ms.low, 1, 5000),
                                   u_clamp(args.glitch_ms.high, 1, 5000))
        c4 == set_linger_times(c3, u_clamp(args.linger_ms.low, 1, 60000),
                                   u_clamp(args.linger_ms.high, 1, 60000))
        c5 == [c4 EXCEPT
                 !.short_pct =
                     f_div(clamp_f32(args.shortpct, Fin(0), Fin(100000), Fin(50000)), 100),
                 !.die_early_pct =
                     f_div(clamp_f32(args.rippct, Fin(0), Fin(100000), Fin(33333)), 100)]
        c6 == set_max_droplets_per_column(c5,
                  u_clamp(args.max_droplets_per_column, 1, 3))
        c7 == set_droplet_density(c6,
                  clamp_f32(args.density, Fin(10), Fin(5000), Fin(1000)))
    IN set_chars_per_sec(c7,
           clamp_f32(args.speed, Fin(1), Fin(1000000), Fin(8000)))

\* main.rs:206-288
Startup ==
    /\ pc = "start"
    /\ \E d \in TermSizes :
          /\ cloud' = reset(Configured, d[1], d[2])
          /\ frame' = Frame_new(d[1], d[2], cloud'.palette.bg)
          /\ size_read' = d
    /\ end_time' = EndTime(args.duration, clock)
    /\ target_period' = TargetPeriod(args.fps)
    /\ next_frame' = clock
    /\ pc' = "loop"
    /\ UNCHANGED <<args, clock, pending_resize, deadline, events, arrived, burst,
                   avars>>
    /\ UNCHANGED <<base, touched, last, panicked>>

\* main.rs:290-295
LoopTop ==
    /\ pc = "loop"
    /\ IF ~cloud.raining
       THEN pc' = "done" /\ UNCHANGED <<cloud, pending_resize>>
       ELSE IF end_time # None /\ clock >= end_time
       THEN /\ cloud' = [cloud EXCEPT !.raining = FALSE]
            /\ pc' = "done"
            /\ UNCHANGED pending_resize
       ELSE /\ pending_resize' = << >>
            /\ pc' = "poll"
            /\ UNCHANGED cloud
    /\ UNCHANGED <<args, clock, next_frame, end_time, target_period,
                   deadline, events, arrived, burst, avars, size_read>>
    /\ UNCHANGED fvars

\* main.rs:310-387, the command bound to a key; keys that change none of the
\* fields kept here (a, p, Tab, the theme keys) fall to the last arm
key_command(c, f, code) ==
    CASE code = "Esc" -> [c EXCEPT !.raining = FALSE]
      [] code = "q" -> [c EXCEPT !.raining = FALSE]
      [] code = " " -> reset(c, f.width, f.height)
      [] code = "Up" ->
            LET cps == IF f_le(c.chars_per_sec, Fin(500))
                       THEN f_mul(c.chars_per_sec, 2)
                       ELSE f_add(c.chars_per_sec, 1000)
            IN set_chars_per_sec(c, f_min(cps, Fin(1000000)))
      [] code = "Down" ->
            LET cps == IF f_le(c.chars_per_sec, Fin(1000))
                       THEN f_div(c.chars_per_sec, 2)
                       ELSE f_add(c.chars_per_sec, -1000)
            IN set_chars_per_sec(c, f_max(cps, Fin(1)))
      [] code = "Left" ->
            IF c.glitchy
            THEN set_glitch_pct(c, f_max(f_add(c.glitch_pct, -50), Fin(0)))
            ELSE c
      [] code = "Right" ->
            IF c.glitchy
            THEN set_glitch_pct(c, f_min(f_add(c.glitch_pct, 50), Fin(1000)))
            ELSE c
      [] code = "-" ->
            set_droplet_density(c, f_max(f_add(c.droplet_density, -250), Fin(10)))
      [] code = "+" ->
            set_droplet_density(c, f_min(f_add(c.droplet_density, 250), Fin(5000)))
      [] OTHER -> c

\* main.rs:298-391, one event read
ReadEvent ==
    /\ pc = "poll"
    /\ events # << >>
    /\ LET ev == Head(events) IN
       /\ events' = Tail(events)
       /\ IF ev.type = "Resize"
          THEN /\ pending_resize' = <<ev.w, ev.h>>
               /\ size_read' = <<ev.w, ev.h>>
               /\ UNCHANGED <<cloud, pc>>
          ELSE IF ev.type = "Key" /\ ev.kind = "Press"
          THEN IF args.screensaver
               THEN /\ cloud' = [cloud EXCEPT !.raining = FALSE]
                    /\ pc' = "check"
                    /\ UNCHANGED <<pending_resize, size_read>>
               ELSE /\ cloud' = key_command(cloud, frame, ev.code)
                    /\ UNCHANGED <<pc, pending_resize, size_read>>
          ELSE UNCHANGED <<cloud, pc, pending_resize, size_read>>
    /\ UNCHANGED <<args, clock, next_frame, end_time, target_period,
                   deadline, arrived, burst, avars>>
    /\ UNCHANGED fvars

\* main.rs:298, poll_event(0) finds nothing
PollEmpty ==
    /\ pc = "poll"
    /\ events = << >>
    /\ pc' = "check"
    /\ UNCHANGED <<args, cloud, clock, next_frame, end_time, target_period,
                   pending_resize, deadline, events, arrived, burst,
                   avars, size_read>>
    /\ UNCHANGED fvars

\* main.rs:393-408
Check ==
    /\ pc = "check"
    /\ LET now == clock IN
       IF ~cloud.raining \/ pending_resize # << >>
       THEN pc' = "after" /\ UNCHANGED deadline
       ELSE IF now >= next_frame
       THEN pc' = "after" /\ UNCHANGED deadline
       ELSE IF end_time # None /\ now >= end_time
       THEN pc' = "after" /\ UNCHANGED deadline
       ELSE LET timeout == IF end_time # None /\ end_time - now < next_frame - now
                           THEN end_time - now
                           ELSE next_frame - now IN
            /\ deadline' = now + timeout
            /\ pc' = "wait"
    /\ UNCHANGED <<args, cloud, clock, next_frame, end_time, target_period,
                   pending_resize, events, arrived, burst, avars, size_read>>
    /\ UNCHANGED fvars

\* main.rs:409, poll_event(timeout) returns when an event is there or the
\* timeout has expired (possibly late)
Wait ==
    /\ pc = "wait"
    /\ IF events # << >>
       THEN \E t \in clock..deadline : t <= MaxClock /\ clock' = t
       ELSE \E t \in deadline..MaxClock : clock' = t
    /\ burst' = IF clock' > clock THEN 0 ELSE burst
    /\ pc' = "poll"
    /\ UNCHANGED <<args, cloud, next_frame, end_time, target_period,
                   pending_resize, deadline, events, arrived, avars, size_read>>
    /\ UNCHANGED fvars

\* AfterPoll without the test of cloud.raining
AfterPollNoStop ==
    /\ pc = "after"
    /\ pc' = "rain"
    /\ IF pending_resize # << >>
       THEN /\ cloud' = reset(cloud, pending_resize[1], pending_resize[2])
            /\ frame' = Frame_new(pending_resize[1], pending_resize[2],
                                  cloud.palette.bg)
       ELSE UNCHANGED <<cloud, frame>>
    /\ UNCHANGED <<args, clock, next_frame, end_time, target_period,
                   pending_resize, deadline, events, arrived, burst,
                   avars, size_read>>
    /\ UNCHANGED <<base, touched, last, panicked>>

\* AfterPoll that resets the engine on a resize but keeps the old frame
AfterPollKeepsFrame ==
    /\ pc = "after"
    /\ IF ~cloud.raining
       THEN pc' = "done" /\ UNCHANGED <<cloud, frame>>
       ELSE /\ pc' = "rain"
            /\ IF pending_resize # << >>
               THEN /\ cloud' = reset(cloud, pending_resize[1], pending_resize[2])
                    /\ UNCHANGED frame
               ELSE UNCHANGED <<cloud, frame>>
    /\ UNCHANGED <<args, clock, next_frame, end_time, target_period,
                   pending_resize, deadline, events, arrived, burst,
                   avars, size_read>>
    /\ UNCHANGED <<base, touched, last, panicked>>

\* main.rs:412-420
AfterPoll ==
    /\ pc = "after"
    /\ IF ~cloud.raining
       THEN pc' = "done" /\ UNCHANGED <<cloud, frame>>
       ELSE /\ pc' = "rain"
            /\ IF pending_resize # << >>
               THEN /\ cloud' = reset(cloud, pending_resize[1], pending_resize[2])
                    /\ frame' = Frame_new(pending_resize[1], pending_resize[2],
                                          cloud.palette.bg)
               ELSE UNCHANGED <<cloud, frame>>
    /\ UNCHANGED <<args, clock, next_frame, end_time, target_period,
                   pending_resize, deadline, events, arrived, burst,
                   avars, size_read>>
    /\ UNCHANGED <<base, touched, last, panicked>>

\* Cloud::rain paints cells through Frame::set (crate::cloud)
rain(f, paint) ==
    IF paint = << >> THEN f ELSE set(f, paint[1], paint[2], paint[3])

\* Terminal::draw flushes the dirty cells and clears the tracking
draw(f) == clear_dirty(f)

Paints == {<< >>} \cup {<<0, 0, c>> : c \in Cells}

\* main.rs:422-425; the tick takes time
Rain ==
    /\ pc = "rain"
    /\ \E paint \in Paints :
          LET g == rain(frame, paint) IN
          frame' = IF is_dirty_all(g) \/ dirty_indices(g) # << >>
                   THEN draw(g) ELSE g
    /\ \E t \in clock..MaxClock : clock' = t
    /\ burst' = IF clock' > clock THEN 0
                ELSE IF pending_resize # << >> THEN burst
                ELSE burst + 1
    /\ pc' = "pace"
    /\ UNCHANGED <<args, cloud, next_frame, end_time, target_period,
                   pending_resize, deadline, events, arrived, avars, size_read>>
    /\ UNCHANGED <<base, touched, last, panicked>>

\* main.rs:427-431 without the clamp to now
PaceNoClamp ==
    /\ pc = "pace"
    /\ next_frame' = next_frame + target_period
    /\ pc' = "loop"
    /\ UNCHANGED <<args, cloud, clock, end_time, target_period,
                   pending_resize, deadline, events, arrived, burst,
                   avars, size_read>>
    /\ UNCHANGED fvars

\* main.rs:427-431
Pace ==
    /\ pc = "pace"
    /\ LET nf == next_frame + target_period
           now == clock IN
       next_frame' = IF now > nf THEN now ELSE nf
    /\ pc' = "loop"
    /\ UNCHANGED <<args, cloud, clock, end_time, target_period,
                   pending_resize, deadline, events, arrived, burst,
                   avars, size_read>>
    /\ UNCHANGED fvars

\* the terminal receives an event: a resize, quit or restart
Arrive ==
    /\ pc \in {"loop", "poll", "check", "wait", "after", "rain", "pace"}
    /\ arrived < MaxEvents
    /\ \E ev \in EventInputs : events' = Append(events, ev)
    /\ arrived' = arrived + 1
    /\ UNCHANGED <<pc, args, cloud, clock, next_frame, end_time, target_period,
                   pending_resize, deadline, burst, avars, size_read>>
    /\ UNCHANGED fvars

\* the terminal receives a key that adjusts the engine
ArriveKey ==
    /\ pc \in {"loop", "poll", "check", "wait", "after", "rain", "pace"}
    /\ arrived < MaxEvents
    /\ \E ev \in KeyEventInputs : events' = Append(events, ev)
    /\ arrived' = arrived + 1
    /\ UNCHANGED <<pc, args, cloud, clock, next_frame, end_time, target_period,
                   pending_resize, deadline, burst, avars, size_read>>
    /\ UNCHANGED fvars

\* the terminal receives a key that ends the run, or an event that does not
ArriveStop ==
    /\ pc \in {"loop", "poll", "check", "wait", "after", "rain", "pace"}
    /\ arrived < MaxEvents
    /\ \E ev \in StopEventInputs : events' = Append(events, ev)
    /\ arrived' = arrived + 1
    /\ UNCHANGED <<pc, args, cloud, clock, next_frame, end_time, target_period,
                   pending_resize, deadline, burst, avars, size_read>>
    /\ UNCHANGED fvars

DriverNext ==
    \/ Startup \/ LoopTop \/ ReadEvent \/ PollEmpty \/ Check \/ Wait
    \/ AfterPoll \/ Rain \/ Pace \/ Arrive

KeysNext ==
    \/ Startup \/ LoopTop \/ ReadEvent \/ PollEmpty \/ Check \/ Wait
    \/ AfterPoll \/ Rain \/ Pace \/ ArriveKey

StopNext ==
    \/ Startup \/ LoopTop \/ ReadEvent \/ PollEmpty \/ Check \/ Wait
    \/ AfterPoll \/ Rain \/ Pace \/ ArriveStop

ArgsNext == ParseArgs \/ Prepare \/ Startup

\* ---------------------------------------------------------- specifications
\* the operations of a Frame in any order
Init == FrameInit /\ DriverIdle /\ args = BaseArgs

Next == FrameNext /\ UNCHANGED dvars

Spec == Init /\ [][Next]_vars

\* the frame of main before Frame::new (main.rs:275)
FrameIdle ==
    /\ frame = Frame_new(0, 0, PaletteBg)
    /\ base = frame.cells
    /\ touched = {}
    /\ last = [op |-> "new", tag |-> PaletteBg]
    /\ panicked = FALSE

\* the run of main with resizes, quit and restart
DriverInit == DriverIdle /\ FrameIdle

SpecDriver == DriverInit /\ [][DriverNext]_vars

\* the run of main with the keys that adjust the engine
KeysInit ==
    /\ pc = "start"
    /\ args \in KeyArgsInputs
    /\ cli = BaseCli
    /\ LocalsIdle
    /\ FrameIdle

SpecKeys == KeysInit /\ [][KeysNext]_vars

\* the run of main with the keys that end it
StopInit ==
    /\ pc = "start"
    /\ args \in StopArgsInputs
    /\ cli = BaseCli
    /\ LocalsIdle
    /\ FrameIdle

SpecStop == StopInit /\ [][StopNext]_vars

\* the thread of main keeps running: a step of the loop that is possible
\* is taken (the blocking poll returns when its timeout expires)
LoopStep ==
    \/ LoopTop \/ ReadEvent \/ PollEmpty \/ Check \/ Wait
    \/ AfterPoll \/ Rain \/ Pace

SpecStopFair == SpecStop /\ WF_vars(LoopStep)

\* main from the command line to the first pass of the render loop
ArgsInit ==
    /\ pc = "cli"
    /\ cli \in CliInputs
    /\ args = BaseArgs
    /\ LocalsIdle
    /\ FrameIdle

SpecArgs == ArgsInit /\ [][ArgsNext]_vars

\* ------------------------------------------------------ frame properties
NoDup(s) == \A i, j \in 1..Len(s) : i # j => s[i] # s[j]
Range(s) == {s[k] : k \in 1..Len(s)}

\* every coordinate of the bounds and one step beyond them
AllXs == 0..(MaxW + 1)
AllYs == 0..(MaxH + 1)

InBounds(f, x, y) == x < f.width /\ y < f.height

\* no full redraw is pending: the frame was dirty-cleared and has since seen
\* only set and get calls (new and clear_with_bg raise dirty_all, and only
\* clear_dirty, which renews base, lowers it)
ClearedThenSets == ~is_dirty_all(frame)

\* C1 as stated: after clear_dirty and any sequence of set calls,
\* dirty_indices() holds exactly the indices of the cells whose value now
\* differs from before the sequence, each once.
C1_DirtyExactlyDiffering ==
    ClearedThenSets =>
        /\ NoDup(dirty_indices(frame))
        /\ Range(dirty_indices(frame)) = Differs(frame.cells, base)

\* C1 amended: after clear_dirty and any sequence of set calls,
\* dirty_indices() holds, each once, exactly the indices of the cells that
\* some set of the sequence changed; these include every cell whose value now
\* differs from before the sequence.
C1_DirtyExactlyChanged ==
    ClearedThenSets =>
        /\ NoDup(dirty_indices(frame))
        /\ Range(dirty_indices(frame)) = touched
        /\ Differs(frame.cells, base) \subseteq Range(dirty_indices(frame))

\* a cell was changed and set back, another still differs
C1_Witness ==
    /\ ClearedThenSets
    /\ last.op = "set"
    /\ Len(dirty_indices(frame)) >= 2
    /\ Differs(frame.cells, base) # {}
    /\ Differs(frame.cells, base) # Range(dirty_indices(frame))

\* C2: a set whose cell is value-equal to the stored one leaves the cells,
\* dirty_indices() and the full-redraw flag as they are; so the same set
\* twice leaves dirty_indices() as after the first, and a blank cell set onto
\* a just-cleared frame adds nothing to the dirty list.
C2_NoOpSet ==
    \A x \in AllXs, y \in AllYs, c \in Cells :
        /\ get(frame, x, y) = Some(c) =>
              LET g == set(frame, x, y, c) IN
              /\ g.cells = frame.cells
              /\ dirty_indices(g) = dirty_indices(frame)
              /\ is_dirty_all(g) = is_dirty_all(frame)
        /\ LET g == set(frame, x, y, c) IN
              dirty_indices(set(g, x, y, c)) = dirty_indices(g)
        /\ LET h == clear_with_bg(frame, c.bg) IN
              dirty_indices(set(h, x, y, blank_with_bg(c.bg))) = dirty_indices(h)

C2_Witness ==
    /\ last = [op |-> "set", tag |-> "same"]
    /\ ~is_dirty_all(frame)
    /\ dirty_indices(frame) # << >>

\* C3: after Frame::new and after clear_with_bg(bg) every cell is the blank
\* cell with background bg, is_dirty_all() is true and dirty_indices() empty.
C3_NewAndClearBlank ==
    last.op \in {"new", "clear_with_bg"} =>
        /\ DOMAIN frame.cells = 0..(frame.width * frame.height - 1)
        /\ \A i \in DOMAIN frame.cells : frame.cells[i] = blank_with_bg(last.tag)
        /\ is_dirty_all(frame)
        /\ dirty_indices(frame) = << >>

\* clear_with_bg has acted on a frame that held incremental dirt
C3_Witness ==
    /\ last = [op |-> "clear_with_bg", tag |-> "Black"]
    /\ \E i \in DOMAIN frame.dirty_map : frame.dirty_map[i]

\* C4: while a full redraw is pending, set, get and clear_with_bg keep
\* is_dirty_all() true and dirty_indices() empty, a changing set overwrites
\* its cell, and clear_dirty makes is_dirty_all() false.
C4_Step ==
    is_dirty_all(frame) =>
        /\ dirty_indices(frame) = << >>
        /\ last'.op \in {"set", "get", "clear_with_bg"} =>
              is_dirty_all(frame') /\ dirty_indices(frame') = << >>
        /\ last' = [op |-> "set", tag |-> "changed"] =>
              Cardinality(Differs(frame'.cells, frame.cells)) = 1
        /\ \A x \in AllXs, y \in AllYs, c \in Cells :
              InBounds(frame, x, y) => get(set(frame, x, y, c), x, y) = Some(c)
        /\ last'.op = "clear_dirty" => ~is_dirty_all(frame')

C4_FullRedrawWins == [][C4_Step]_fvars

C4_Witness ==
    /\ is_dirty_all(frame)
    /\ last = [op |-> "set", tag |-> "changed"]
    /\ \E i, j \in DOMAIN frame.cells : frame.cells[i] # frame.cells[j]

\* C5: for every (x,y) with x >= width or y >= height, get returns nothing
\* and set changes nothing and does not panic; on a frame of width 0 or
\* height 0 that is every coordinate.
C5_OutOfBoundsNoOp ==
    /\ ~panicked
    /\ \A x \in AllXs, y \in AllYs :
          (x >= frame.width \/ y >= frame.height) =>
              /\ get(frame, x, y) = NoCell
              /\ ~get_panics(frame, x, y)
              /\ \A c \in Cells :
                    set(frame, x, y, c) = frame /\ ~set_panics(frame, x, y, c)

C5_Witness ==
    /\ last = [op |-> "set", tag |-> "oob"]
    /\ frame.width > 0 /\ frame.height > 0
    /\ dirty_indices(frame) # << >>

\* C6: dirty_indices() never holds an index twice, and every index in it is
\* a valid cell index.
C6_DirtyDistinctValid ==
    /\ NoDup(dirty_indices(frame))
    /\ \A k \in 1..Len(dirty_indices(frame)) :
          dirty_indices(frame)[k] \in 0..(frame.width * frame.height - 1)

C6_Witness ==
    /\ last.op = "set"
    /\ Len(dirty_indices(frame)) >= 2
    /\ Len(dirty_indices(frame)) = frame.width * frame.height

\* C7: right after clear_dirty, dirty_indices() is empty and is_dirty_all()
\* false; get calls, out-of-bounds sets and value-equal sets keep it so, and
\* the first set that changes a cell reports exactly its own index.
Quiet(f) == ~is_dirty_all(f) /\ dirty_indices(f) = << >>

C7_Step ==
    /\ last'.op = "clear_dirty" => Quiet(frame')
    /\ ( /\ Quiet(frame)
         /\ \/ last'.op = "get"
            \/ last'.op = "set" /\ last'.tag \in {"oob", "same"} )
       => Quiet(frame')
    /\ (Quiet(frame) /\ last' = [op |-> "set", tag |-> "changed"]) =>
          /\ ~is_dirty_all(frame')
          /\ Len(dirty_indices(frame')) = 1
          /\ Range(dirty_indices(frame')) = Differs(frame'.cells, frame.cells)
    /\ Quiet(frame) =>
          \A x \in AllXs, y \in AllYs, c \in Cells :
              (InBounds(frame, x, y) /\ get(frame, x, y) # Some(c)) =>
                  dirty_indices(set(frame, x, y, c)) = <<index(frame, x, y)>>

C7_QuietUntilChange == [][C7_Step]_fvars

\* the first changing set after a clear_dirty that followed a clear_with_bg
\* of a frame with incremental dirt
C7_Witness ==
    /\ last = [op |-> "set", tag |-> "changed"]
    /\ ~is_dirty_all(frame)
    /\ Len(dirty_indices(frame)) = 1
    /\ frame.width * frame.height >= 2

\* ----------------------------------------------------- driver properties
\* the step of main that configures the engine from the command line
Configures == pc = "start" /\ pc' = "loop"

\* C8 as stated: a --speed of 0 or NaN makes the driver pass the default 8.0
\* to set_chars_per_sec.
C8_ZeroOrNaNGivesDefault ==
    [][(Configures /\ args.speed \in {Fin(0), NaN}) =>
          cloud'.chars_per_sec = Fin(8000)]_vars

\* C8 amended: a --speed of NaN makes the driver pass the default 8.0 and a
\* --speed of 0 the lower bound 0.001; the value passed to set_chars_per_sec
\* at startup is always finite and within [0.001, 1000], never zero or NaN.
C8_SpeedClamped ==
    [][Configures =>
          /\ args.speed = NaN => cloud'.chars_per_sec = Fin(8000)
          /\ args.speed = Fin(0) => cloud'.chars_per_sec = Fin(1)
          /\ is_finite(cloud'.chars_per_sec)
          /\ cloud'.chars_per_sec.val >= 1
          /\ cloud'.chars_per_sec.val <= 1000000]_vars

C8_Witness ==
    /\ pc = "loop"
    /\ args.speed = NaN
    /\ cloud.chars_per_sec = Fin(8000)

\* C9: after each tick the next scheduled frame time is the previous one plus
\* the period, or the current time when that sum is in the past; so it is
\* never earlier than the current time, and no more than two ticks that are
\* not caused by a resize start at one clock value.
C9_Step ==
    /\ burst <= 2
    /\ (pc = "pace" /\ pc' = "loop") =>
          /\ next_frame' = IF clock' > next_frame + target_period
                           THEN clock'
                           ELSE next_frame + target_period
          /\ next_frame' >= clock'

C9_FramePacing == [][C9_Step]_vars

\* a stalled tick has been paced: with a period of 2 and no resize an odd
\* scheduled time is one that was clamped to the current time
C9_Witness ==
    /\ pc = "loop"
    /\ target_period = 2
    /\ clock = 5
    /\ next_frame = clock
    /\ arrived = 0

\* C10: with a run duration configured, no tick (cloud.rain) is started once
\* the clock has reached the end time.
C10_NoTickAfterEnd ==
    (pc = "rain" /\ end_time # None) => clock < end_time

\* ------------------------------------------------------------------- C17
\* what a consumer shows after one pass over frame f, having shown `display`
\* before: everything when a full redraw is pending, else the listed cells
Consume(f, display) ==
    IF is_dirty_all(f) THEN f.cells
    ELSE [i \in DOMAIN f.cells |->
             IF i \in Range(dirty_indices(f)) THEN f.cells[i] ELSE display[i]]

\* C17: no missed update.  With no full redraw pending, every cell whose
\* value differs from its value at the most recent clear_dirty has its index
\* in dirty_indices(); and a consumer that redraws everything when
\* is_dirty_all() and otherwise only the listed indices ends with a display
\* equal to the grid.
C17_NoMissedUpdate ==
    /\ ~is_dirty_all(frame) =>
          Differs(frame.cells, base) \subseteq Range(dirty_indices(frame))
    /\ Consume(frame, base) = frame.cells

\* a set has changed a cell since the last clear_dirty, no full redraw pending
C17_Witness ==
    /\ ~is_dirty_all(frame)
    /\ last.op = "set" /\ last.tag = "changed"
    /\ Differs(frame.cells, base) # {}
    /\ Len(dirty_indices(frame)) < Cardinality(DOMAIN frame.cells)

\* ------------------------------------------------------------------- C19
\* C19: an in-bounds set(x, y, cell) changes at most the cell at the
\* row-major index y * width + x, after which get(x, y) returns that cell;
\* every other cell, the width and the height are unchanged; distinct
\* in-bounds coordinates have distinct indices; and the grid always holds
\* width * height cells.
C19_RowMajorSet ==
    /\ DOMAIN frame.cells = 0..(frame.width * frame.height - 1)
    /\ \A x1 \in AllXs, y1 \in AllYs, x2 \in AllXs, y2 \in AllYs :
          (InBounds(frame, x1, y1) /\ InBounds(frame, x2, y2) /\ <<x1, y1>> # <<x2, y2>>)
              => index(frame, x1, y1) # index(frame, x2, y2)
    /\ \A x \in AllXs, y \in AllYs, c \in Cells :
          InBounds(frame, x, y) =>
              LET g == set(frame, x, y, c)
                  i == y * frame.width + x
              IN /\ index(frame, x, y) = i
                 /\ g.width = frame.width /\ g.height = frame.height
                 /\ DOMAIN g.cells = DOMAIN frame.cells
                 /\ g.cells[i] = c
                 /\ get(g, x, y) = Some(c)
                 /\ \A j \in DOMAIN frame.cells :
                       j # i => g.cells[j] = frame.cells[j]

\* a set has just changed a cell of a grid with two rows and two columns
C19_Witness ==
    /\ last.op = "set" /\ last.tag = "changed"
    /\ frame.width = 2 /\ frame.height = 2
    /\ \E i \in DOMAIN frame.cells : i > 0 /\ frame.cells[i] # frame.cells[0]

\* ------------------------------------------------------------------- C11
\* the step reads a key event that is not a press
ReadsNonPress ==
    /\ pc = "poll" /\ events # << >> /\ events' = Tail(events)
    /\ Head(events).type = "Key" /\ Head(events).kind # "Press"

C11_Step ==
    /\ ~cloud.raining =>
          /\ ~cloud'.raining
          /\ pc' \notin {"rain", "pace"}
          /\ frame' = frame
    /\ (args.screensaver /\ cloud.raining /\ ~cloud'.raining /\ pc = "poll") =>
          /\ cloud' = [cloud EXCEPT !.raining = FALSE]
          /\ pending_resize' = pending_resize
    /\ (args.screensaver /\ ~cloud.raining) => Len(events') >= Len(events)
    /\ ReadsNonPress => cloud' = cloud

\* C11: once the termination flag is set (q or Esc pressed, or any key press
\* in screensaver mode) no tick and no draw is started and the loop exits,
\* whatever events are queued; in screensaver mode the terminating press
\* applies no command and no event after it is read; a key event that is not
\* a press never terminates the loop.
C11_Termination ==
    /\ [][C11_Step]_vars
    /\ (pc # "start" /\ ~cloud.raining) ~> (pc = "done")

\* a screensaver run has ended on a key press with events still unread
C11_Witness ==
    /\ pc = "done" /\ ~cloud.raining
    /\ args.screensaver
    /\ events # << >>

\* ------------------------------------------------------------------- C12
\* C12: for every scheme, color mode and default-background flag,
\* build_palette returns a non-empty color list and a background that is
\* absent exactly when the flag is set; in Mono mode the list is exactly
\* [White].  The palette of the configured engine is such a palette.
C12_PaletteShape ==
    /\ \A scheme \in ColorSchemes, mode \in ColorModes, d \in BOOLEAN :
          LET p == build_palette(scheme, mode, d) IN
          /\ Len(p.colors) > 0
          /\ (p.bg = NoColor) <=> d
          /\ mode = "Mono" => p.colors = <<"White">>
    /\ pc = "loop" =>
          /\ color_scheme \in ColorSchemes /\ color_mode \in ColorModes
          /\ Len(cloud.palette.colors) > 0
          /\ (cloud.palette.bg = NoColor) <=> cli.defaultbg
          /\ color_mode = "Mono" => cloud.palette.colors = <<"White">>

\* the engine is configured with a palette that has a background
C12_Witness ==
    /\ pc = "loop"
    /\ color_scheme = "Nebula" /\ color_mode = "TrueColor"
    /\ ~cli.defaultbg
    /\ cloud.palette.bg = "Rgb(0,0,0)"
    /\ Len(cloud.palette.colors) = 11

\* ------------------------------------------------------------------- C13
\* C13: every theme name print_list_colors lists is accepted by --color:
\* parse_color_scheme returns a scheme for it, so the run does not end with
\* the invalid-color error.
C13_ListedColorsAccepted ==
    cli.color \in print_list_colors => pc # "exit_color"

\* ------------------------------------------------------------------- C14
InRange(v, min, max) == is_finite(v) /\ min <= v.val /\ v.val <= max

\* C14: for any command-line values and any presses of Up, Down, Left,
\* Right, - and +, the engine holds a chars-per-second in [0.001, 1000], a
\* droplet density in [0.01, 5.0], a glitch chance in [0, 1] and a maximum
\* of droplets per column in {1, 2, 3}: its setters never receive a value
\* outside these domains.
C14_SettersInDomain ==
    pc # "start" =>
        /\ InRange(cloud.chars_per_sec, 1, 1000000)
        /\ InRange(cloud.droplet_density, 10, 5000)
        /\ InRange(cloud.glitch_pct, 0, 1000)
        /\ cloud.max_droplets_per_column \in {1, 2, 3}

\* two presses of Up have taken the speed from 0.5 to 2.0 and --maxdpc
\* was in range
C14_Witness ==
    /\ args.speed = Fin(500)
    /\ cloud.chars_per_sec = Fin(2000)
    /\ cloud.max_droplets_per_column = 3
    /\ events = << >>

\* ------------------------------------------------------------------- C15
\* C15: a --glitchms / --lingerms text is either rejected, or parsed to a
\* range with a comma in the text and 1 <= low <= high; and the pair handed
\* to set_glitch_times satisfies 1 <= low <= high <= 5000, the pair handed
\* to set_linger_times 1 <= low <= high <= 60000.
C15_RangesValid ==
    /\ \A s \in {cli.glitchms, cli.lingerms} :
          LET r == U16Range_from_str(s) IN
          r.ok => /\ find(s, ",", 1) > 0
                  /\ 1 <= r.low /\ r.low <= r.high /\ r.high <= U16Max
    /\ pc \notin {"cli", "exit_usage"} =>
          /\ U16Range_from_str(cli.glitchms) = args.glitch_ms
          /\ U16Range_from_str(cli.lingerms) = args.linger_ms
          /\ args.glitch_ms.ok /\ args.linger_ms.ok
    /\ pc = "loop" =>
          /\ 1 <= cloud.glitch_low /\ cloud.glitch_low <= cloud.glitch_high
          /\ cloud.glitch_high <= 5000
          /\ 1 <= cloud.linger_low /\ cloud.linger_low <= cloud.linger_high
          /\ cloud.linger_high <= 60000

\* a glitch range above 5000 on both sides was accepted and clamped
C15_Witness ==
    /\ pc = "loop"
    /\ args.glitch_ms = RangeOk(5001, 60001)
    /\ cloud.glitch_low = 5000 /\ cloud.glitch_high = 5000

\* ------------------------------------------------------------------- C16
\* C16: at every call of cloud.rain(frame) the size last passed to
\* cloud.reset equals the frame's, and both equal the size of the Resize
\* event read last, or the initial terminal size when none was read,
\* whatever Resize and restart keys were read; the frame of the first tick
\* after a resize is newly created with a full redraw pending.
C16_RainSeesCurrentSize ==
    pc = "rain" =>
        /\ cloud.width = frame.width /\ cloud.height = frame.height
        /\ <<frame.width, frame.height>> = size_read
        /\ pending_resize # << >> =>
              /\ frame = Frame_new(size_read[1], size_read[2], cloud.palette.bg)
              /\ is_dirty_all(frame)

\* a tick is about to run on the frame created for a Resize, after two events
C16_Witness ==
    /\ pc = "rain"
    /\ pending_resize # << >>
    /\ size_read \notin TermSizes
    /\ arrived >= 2 /\ events = << >>

\* ------------------------------------------------------------------- C18
\* C18: the frame schedule never runs ahead of the clock: after every tick
\* the next scheduled frame time is at most one period later than the
\* current time.
C18_ScheduleNotAhead ==
    pc = "loop" => next_frame <= clock + target_period
====
